---------------------------- MODULE Spec2Model ----------------------------
(***************************************************************************)
(* winsnow: a snowfall wallpaper.  The module models                       *)
(*   - the particle field of winsnow.go (Game.Initialize, Game.Update),    *)
(*   - the window layering daemon (the goroutine of main and               *)
(*     SetWindowToBottom) against an abstract user32 window manager.       *)
(*                                                                         *)
(* float64 is modelled as a binary floating-point format with round to     *)
(* nearest, ties to even, whose significand has Prec bits instead of 53    *)
(* and whose smallest quantum is 2^-Frac: a value is the integer number of *)
(* quanta it holds.  Every arithmetic step of the source is one rounded    *)
(* operation of the model, in the order the source evaluates it.           *)
(***************************************************************************)
EXTENDS Integers, Sequences, FiniteSets

\* ------------------------------------------------------------------ bounds
\* Significand width of the modelled float format (float64: 53).
Prec == 8
\* Resolution reported by ebiten.ScreenSizeInFullscreen().
MonitorWidth == 12
MonitorHeight == 12
\* Number of particles kept by the model (numSnowflakes is 300 in the source;
\* particles never interact).
numSnowflakes == 2
\* Number of frames (Update calls) explored with every particle draw.
MaxFrames == 20
\* Number of frames explored with the particle draws fixed: more than the
\* longest wind countdown.
MaxCadenceFrames == 182
\* Number of top-level windows of the desktop (handles 1 .. MaxHwnd; 0 is NULL).
MaxHwnd == 2
\* The count of ticks that found no window saturates here.
MaxMisses == 2

\* ------------------------------------------------------------- constants
HWND_BOTTOM == 1
SWP_NOMOVE == 2
SWP_NOSIZE == 1
SWP_NOACTIVATE == 16
SWP_SHOWWINDOW == 64

\* ------------------------------------------------------- floating point
Frac == Prec + 2
Unit == 2 ^ Frac

Abs(n) == IF n < 0 THEN 0 - n ELSE n

RECURSIVE BitLen(_)
BitLen(n) == IF n = 0 THEN 0 ELSE 1 + BitLen(n \div 2)

\* The spacing of representable values around a magnitude of q quanta.
Quantum(q) == LET e == BitLen(q) - Prec IN IF e > 0 THEN 2 ^ e ELSE 1

\* The representable value nearest to num/den quanta, ties to even.
RoundRat(num, den) ==
    LET a   == Abs(num)
        qu  == Quantum(a \div den)
        d   == den * qu
        n   == a \div d
        rem == a - n * d
        m   == IF 2 * rem > d \/ (2 * rem = d /\ n % 2 = 1) THEN n + 1 ELSE n
    IN  IF num < 0 THEN 0 - m * qu ELSE m * qu

FInt(n) == n * Unit
FConst(num, den) == RoundRat(num * Unit, den)
FAdd(a, b) == RoundRat(a + b, 1)
FSub(a, b) == RoundRat(a - b, 1)
FMul(a, b) == RoundRat(a * b, Unit)
FDiv(a, b) == IF b < 0 THEN RoundRat(0 - a * Unit, 0 - b) ELSE RoundRat(a * Unit, b)

\* rand.Float64(): a multiple of 2^-Prec in [0, 1); k is the raw draw.
MaxDraw == 2 ^ Prec - 1
Float64(k) == k * 2 ^ (Frac - Prec)

\* The raw draws explored: the least and the greatest and, for the countdown,
\* the one after the least (a countdown that is no whole number of frames).
PosDraws == {0, MaxDraw}
AttrDraws == {0, MaxDraw}
WindDraws == {0, MaxDraw}
TimeDraws == {0, 1, MaxDraw}

\* ------------------------------------------------------------------ state
VARIABLES
    mainPc,          \* main: "start" before game.Initialize(), "run" inside RunGame
    snowflakes,      \* Game.snowflakes
    screenWidth,     \* Game.screenWidth
    screenHeight,    \* Game.screenHeight
    wind,            \* Game.wind
    windTarget,      \* Game.windTarget
    windChangeTime,  \* Game.windChangeTime
    frames,          \* number of Update calls so far
    retargets,       \* number of Update calls that re-rolled the wind target
    sinceRetarget,   \* Update calls since the last re-roll (0 in the re-rolling one)
    adv,             \* per particle, (x, y) of the last Update right after line 101
    recycled,        \* particles the last Update reset at lines 104-107
    daemonPc,        \* the goroutine of main: the line it is about to execute
    hwnd,            \* SetWindowToBottom's hwnd
    fgHwnd,          \* SetWindowToBottom's fgHwnd
    calls,           \* the calls SetWindowToBottom made in the current tick, in order
    misses,          \* ticks that ended without a window handle (saturating)
    titleHwnd,       \* user32: the window FindWindowW finds by title (0: none)
    classHwnd,       \* user32: the window FindWindowW finds by class (0: none)
    foreground,      \* user32: the foreground window (0: none)
    zorder,          \* user32: the windows, topmost first
    activated        \* user32: the windows a SetWindowPos of the daemon activated

gameVars == <<mainPc, snowflakes, screenWidth, screenHeight, wind, windTarget,
              windChangeTime, frames, retargets, sinceRetarget, adv, recycled>>

daemonVars == <<daemonPc, hwnd, fgHwnd, calls, misses>>

osVars == <<titleHwnd, classHwnd, foreground, zorder, activated>>

vars == <<gameVars, daemonVars, osVars>>

Flakes == 1 .. numSnowflakes

\* ------------------------------------------------------------- the game
\* The zero value of Game, as main builds it with &Game{}.
GameInit ==
    /\ mainPc = "start"
    /\ snowflakes = << >>
    /\ screenWidth = 0
    /\ screenHeight = 0
    /\ wind = 0
    /\ windTarget = 0
    /\ windChangeTime = 0
    /\ frames = 0
    /\ retargets = 0
    /\ sinceRetarget = 0
    /\ adv = << >>
    /\ recycled = {}

NewSnowflake(w, h, kx, ky, ksize, kspeed) ==
    [ x         |-> FMul(Float64(kx), FInt(w)),
      y         |-> FMul(Float64(ky), FInt(h)),
      size      |-> FAdd(FInt(1), FMul(Float64(ksize), FInt(3))),
      speed     |-> FAdd(FInt(6), FMul(Float64(kspeed), FInt(10))),
      drift     |-> 0,
      windSpeed |-> 0 ]

InitializeFrom(posDraws, attrDraws) ==
    /\ mainPc = "start"
    /\ mainPc' = "run"
    /\ screenWidth' = MonitorWidth
    /\ screenHeight' = MonitorHeight
    /\ wind' = 0
    /\ windTarget' = 0
    /\ windChangeTime' = 0
    /\ \E kx, ky \in [Flakes -> posDraws], ksize, kspeed \in [Flakes -> attrDraws] :
          snowflakes' = [i \in Flakes |->
              NewSnowflake(MonitorWidth, MonitorHeight, kx[i], ky[i], ksize[i], kspeed[i])]
    /\ UNCHANGED <<frames, retargets, sinceRetarget, adv, recycled>>
    /\ UNCHANGED <<daemonVars, osVars>>

\* Line 84: the decremented countdown.
Countdown(t) == FSub(t, FInt(1))

\* A re-roll one frame late: the test of line 85 with < for <=.
RetargetsLate(t) == Countdown(t) < 0

\* Line 85.
Retargets(t) == Countdown(t) <= 0

\* Line 87 and line 88.
NewWindTarget(k) == FMul(FSub(FMul(Float64(k), FInt(2)), FInt(1)), FConst(8, 10))
NewWindChangeTime(k) == FAdd(FInt(60), FMul(Float64(k), FInt(120)))

\* A filter without its decay: line 92 with the factor 0.99 left out.
SmoothNoDecay(w, target) == FAdd(w, FMul(target, FConst(1, 100)))

\* Line 92.
Smooth(w, target) == FAdd(FMul(w, FConst(99, 100)), FMul(target, FConst(1, 100)))

\* Lines 97-101: the position right after the wind effect and the velocity.
Advance(f, w) == [x |-> FAdd(f.x, FDiv(w, f.size)), y |-> FAdd(f.y, f.speed)]

\* The test of line 104 with >= for >.
OutOfBoundsInclusive(y, h) == y >= FInt(h)

\* Line 104.
OutOfBounds(y, h) == y > FInt(h)

\* Lines 110-114 without the left wrap.
WrapXNoLeft(x, w) == IF x > FInt(w) THEN 0 ELSE x

\* Lines 110-114 clamping at the right edge instead of wrapping.
WrapXClamp(x, w) == IF x < 0 THEN FInt(w) ELSE IF x > FInt(w) THEN FInt(w) ELSE x

\* Lines 110-114 with the two edges swapped.
WrapXSwapped(x, w) == IF x < 0 THEN 0 ELSE IF x > FInt(w) THEN FInt(w) ELSE x

\* Lines 110-114.
WrapX(x, w) == IF x < 0 THEN FInt(w) ELSE IF x > FInt(w) THEN 0 ELSE x

\* A recycle that builds a fresh particle: the fall speed is drawn again.
UpdateFlakeRespawn(f, w, width, height, k) ==
    LET a  == Advance(f, w)
        oo == OutOfBounds(a.y, height)
    IN  IF oo THEN [f EXCEPT !.x = WrapX(FMul(Float64(k), FInt(width)), width),
                             !.y = 0,
                             !.speed = FAdd(FInt(6), FMul(Float64(k), FInt(10)))]
              ELSE [f EXCEPT !.x = WrapX(a.x, width), !.y = a.y]

\* Lines 95-115, one particle; k is the raw draw of line 106.
UpdateFlake(f, w, width, height, k) ==
    LET a  == Advance(f, w)
        oo == OutOfBounds(a.y, height)
        y1 == IF oo THEN 0 ELSE a.y
        x1 == IF oo THEN FMul(Float64(k), FInt(width)) ELSE a.x
    IN  [f EXCEPT !.x = WrapX(x1, width), !.y = y1]

UpdateFrom(posDraws, windDraws, timeDraws, maxFrames) ==
    /\ mainPc = "run"
    /\ frames < maxFrames
    /\ frames' = frames + 1
    /\ IF Retargets(windChangeTime)
         THEN \E kt \in windDraws, kc \in timeDraws :
                 /\ windTarget' = NewWindTarget(kt)
                 /\ windChangeTime' = NewWindChangeTime(kc)
         ELSE /\ windTarget' = windTarget
              /\ windChangeTime' = Countdown(windChangeTime)
    /\ retargets' = IF Retargets(windChangeTime) THEN retargets + 1 ELSE retargets
    /\ sinceRetarget' = IF Retargets(windChangeTime) THEN 0 ELSE sinceRetarget + 1
    /\ wind' = Smooth(wind, windTarget')
    /\ adv' = [i \in Flakes |-> Advance(snowflakes[i], wind')]
    /\ recycled' = {i \in Flakes : OutOfBounds(adv'[i].y, screenHeight)}
    /\ \E kx \in [Flakes -> posDraws] :
          /\ \A i \in Flakes : i \notin recycled' => kx[i] = CHOOSE k \in posDraws : TRUE
          /\ snowflakes' = [i \in Flakes |->
                UpdateFlake(snowflakes[i], wind', screenWidth, screenHeight, kx[i])]
    /\ UNCHANGED <<mainPc, screenWidth, screenHeight>>
    /\ UNCHANGED <<daemonVars, osVars>>

\* The frame loop with every particle draw, over MaxFrames frames.
Initialize == InitializeFrom(PosDraws, AttrDraws)

Update == UpdateFrom(PosDraws, WindDraws, {0}, MaxFrames)

\* The frame loop with every wind draw and the particle draws fixed, over
\* MaxCadenceFrames frames.
CadenceInitialize == InitializeFrom({0}, {MaxDraw})

CadenceUpdate == UpdateFrom({0}, WindDraws, TimeDraws, MaxCadenceFrames)

\* ---------------------------------------------------- the window manager
Handles == 1 .. MaxHwnd

\* Bits of a flag word: the flags of the source are distinct powers of two.
HasFlag(flags, bit) == (flags \div bit) % 2 = 1

Without(z, h) == SelectSeq(z, LAMBDA w : w # h)

\* user32 SetWindowPos(h, after, ..., flags) with SWP_NOMOVE and SWP_NOSIZE:
\* the window goes to the bottom (HWND_BOTTOM) or to the top (0, HWND_TOP) of
\* the Z order, and is activated unless SWP_NOACTIVATE is given.
SetWindowPos(h, after, flags) ==
    /\ zorder' = IF after = HWND_BOTTOM THEN Without(zorder, h) \o <<h>>
                                        ELSE <<h>> \o Without(zorder, h)
    /\ foreground' = IF HasFlag(flags, SWP_NOACTIVATE) THEN foreground ELSE h
    /\ activated' = IF HasFlag(flags, SWP_NOACTIVATE) THEN activated
                                                      ELSE activated \cup {h}

\* ebiten.RunGame creates the window: from then on FindWindowW finds it by its
\* title, by its class, or by both.
CreateWindow ==
    /\ titleHwnd = 0 /\ classHwnd = 0
    /\ \E h \in Handles, byTitle, byClass \in BOOLEAN :
          /\ byTitle \/ byClass
          /\ titleHwnd' = IF byTitle THEN h ELSE 0
          /\ classHwnd' = IF byClass THEN h ELSE 0
    /\ UNCHANGED <<gameVars, daemonVars, foreground, zorder, activated>>

\* The user gives the focus to another window, or to none.
FocusChange ==
    /\ \E h \in 0 .. MaxHwnd : h # foreground /\ foreground' = h
    /\ UNCHANGED <<gameVars, daemonVars, titleHwnd, classHwnd, zorder, activated>>

\* ------------------------------------------------------------ the daemon
DaemonInit ==
    /\ daemonPc = "sleep"
    /\ hwnd = 0
    /\ fgHwnd = 0
    /\ calls = << >>
    /\ misses = 0
    /\ titleHwnd = 0
    /\ classHwnd = 0
    /\ foreground = 0
    /\ zorder = [i \in Handles |-> i]
    /\ activated = {}

Call(api, h, after, flags) == [api |-> api, hwnd |-> h, after |-> after, flags |-> flags]

\* The flags of line 190 without SWP_NOACTIVATE.
BottomFlagsActivating == SWP_NOMOVE + SWP_NOSIZE + SWP_SHOWWINDOW

\* Line 190.
BottomFlags == SWP_NOMOVE + SWP_NOSIZE + SWP_NOACTIVATE + SWP_SHOWWINDOW

\* Line 199.
RestoreFlags == SWP_NOMOVE + SWP_NOSIZE + SWP_SHOWWINDOW

\* The test of line 194 without its second half.
RestoreAlwaysWanted(fg, h) == fg # 0

\* Line 194.
RestoreWanted(fg, h) == fg # 0 /\ fg # h

\* Line 222: the start-up delay ends.
Wake ==
    /\ daemonPc = "sleep"
    /\ daemonPc' = "ticker"
    /\ UNCHANGED <<gameVars, osVars, hwnd, fgHwnd, calls, misses>>

\* Lines 226-227: the ticker fires and SetWindowToBottom is entered.
Tick ==
    /\ daemonPc = "ticker"
    /\ daemonPc' = "findTitle"
    /\ calls' = << >>
    /\ UNCHANGED <<gameVars, osVars, hwnd, fgHwnd, misses>>

\* Lines 162-167.
FindByTitle ==
    /\ daemonPc = "findTitle"
    /\ hwnd' = titleHwnd
    /\ calls' = Append(calls, Call("FindWindowW", titleHwnd, 0, 0))
    /\ daemonPc' = IF titleHwnd = 0 THEN "findClass" ELSE "getForeground"
    /\ UNCHANGED <<gameVars, osVars, fgHwnd, misses>>

\* Lines 169-175.
FindByClass ==
    /\ daemonPc = "findClass"
    /\ hwnd' = classHwnd
    /\ calls' = Append(calls, Call("FindWindowW", classHwnd, 0, 0))
    /\ daemonPc' = IF classHwnd = 0 THEN "notFound" ELSE "getForeground"
    /\ UNCHANGED <<gameVars, osVars, fgHwnd, misses>>

\* Lines 176-177 ending the goroutine instead of returning to its loop.
LogNotFoundAndStop ==
    /\ daemonPc = "notFound"
    /\ calls' = Append(calls, Call("log.Println", 0, 0, 0))
    /\ misses' = IF misses < MaxMisses THEN misses + 1 ELSE misses
    /\ daemonPc' = "done"
    /\ UNCHANGED <<gameVars, osVars, hwnd, fgHwnd>>

\* Lines 176-177: the diagnostic and the return to the ticker loop.
LogNotFound ==
    /\ daemonPc = "notFound"
    /\ calls' = Append(calls, Call("log.Println", 0, 0, 0))
    /\ misses' = IF misses < MaxMisses THEN misses + 1 ELSE misses
    /\ daemonPc' = "ticker"
    /\ UNCHANGED <<gameVars, osVars, hwnd, fgHwnd>>

\* Line 182.
GetForeground ==
    /\ daemonPc = "getForeground"
    /\ fgHwnd' = foreground
    /\ calls' = Append(calls, Call("GetForegroundWindow", foreground, 0, 0))
    /\ daemonPc' = "setBottom"
    /\ UNCHANGED <<gameVars, osVars, hwnd, misses>>

\* Lines 186-191.
SetBottom ==
    /\ daemonPc = "setBottom"
    /\ SetWindowPos(hwnd, HWND_BOTTOM, BottomFlags)
    /\ calls' = Append(calls, Call("SetWindowPos", hwnd, HWND_BOTTOM, BottomFlags))
    /\ daemonPc' = "restore"
    /\ UNCHANGED <<gameVars, titleHwnd, classHwnd, hwnd, fgHwnd, misses>>

\* Lines 194-201, and the return to the ticker loop.
Restore ==
    /\ daemonPc = "restore"
    /\ IF RestoreWanted(fgHwnd, hwnd)
         THEN /\ SetWindowPos(fgHwnd, 0, RestoreFlags)
              /\ calls' = Append(calls, Call("SetWindowPos", fgHwnd, 0, RestoreFlags))
         ELSE UNCHANGED <<foreground, zorder, activated, calls>>
    /\ daemonPc' = "ticker"
    /\ UNCHANGED <<gameVars, titleHwnd, classHwnd, hwnd, fgHwnd, misses>>

DaemonStep ==
    \/ Wake
    \/ Tick
    \/ FindByTitle
    \/ FindByClass
    \/ LogNotFound
    \/ GetForeground
    \/ SetBottom
    \/ Restore

\* ------------------------------------------------------- specifications
Init == GameInit /\ DaemonInit

Next == Initialize \/ Update

Spec == Init /\ [][Next]_vars

CadenceNext == CadenceInitialize \/ CadenceUpdate

CadenceSpec == Init /\ [][CadenceNext]_vars

\* The daemon and the desktop around it.  The ticker and the scheduler let
\* the goroutine take its next step whenever it has one.
DaemonNext == DaemonStep \/ CreateWindow \/ FocusChange

DaemonSpec == Init /\ [][DaemonNext]_vars /\ WF_vars(DaemonStep)


\* ------------------------------------------------------------- properties
Running == mainPc = "run"
Width == FInt(screenWidth)
Height == FInt(screenHeight)

\* C1: after Initialize and after every Update, every particle has
\* 0 <= x <= screenWidth and 0 <= y <= screenHeight, whatever was drawn.
C1_InBounds ==
    Running => \A i \in Flakes :
        /\ 0 <= snowflakes[i].x /\ snowflakes[i].x <= Width
        /\ 0 <= snowflakes[i].y /\ snowflakes[i].y <= Height

\* An Update has run and left one particle on the right edge and on the
\* bottom edge at once.
C1_Witness ==
    /\ frames > 0
    /\ \E i \in Flakes : snowflakes[i].x = Width /\ snowflakes[i].y = Height

\* C2 as stated: after Initialize and after the wrap/reset logic of every
\* Update, every position lies in [0, screenWidth) x [0, screenHeight).
C2_HalfOpen ==
    Running => \A i \in Flakes :
        /\ 0 <= snowflakes[i].x /\ snowflakes[i].x < Width
        /\ 0 <= snowflakes[i].y /\ snowflakes[i].y < Height

\* C2 as amended: right after Initialize every position lies in
\* [0, screenWidth) x [0, screenHeight); after an Update it lies in the closed
\* rectangle, x = screenWidth only where the left wrap put it or the drift left
\* it, y = screenHeight only where the advance landed on it and the strict
\* test of line 104 kept it.
C2_ClosedAfterUpdate ==
    Running => \A i \in Flakes :
        /\ 0 <= snowflakes[i].x /\ snowflakes[i].x <= Width
        /\ 0 <= snowflakes[i].y /\ snowflakes[i].y <= Height
        /\ frames = 0 => snowflakes[i].x < Width /\ snowflakes[i].y < Height
        /\ (frames > 0 /\ snowflakes[i].x = Width) =>
              i \notin recycled /\ (adv[i].x < 0 \/ adv[i].x = Width)
        /\ (frames > 0 /\ snowflakes[i].y = Height) =>
              i \notin recycled /\ adv[i].y = Height

\* The left wrap has put one particle on x = screenWidth while another sits on
\* y = screenHeight.
C2_Witness ==
    /\ frames > 0
    /\ \E i \in Flakes : snowflakes[i].x = Width /\ adv[i].x < 0
    /\ \E j \in Flakes : snowflakes[j].y = Height /\ adv[j].y = Height

C4_AttributesKept ==
    /\ [](Running => Len(snowflakes) = numSnowflakes)
    /\ [][Running =>
            /\ Len(snowflakes') = Len(snowflakes)
            /\ \A i \in Flakes :
                  /\ snowflakes'[i].size = snowflakes[i].size
                  /\ snowflakes'[i].speed = snowflakes[i].speed
                  /\ snowflakes'[i].drift = snowflakes[i].drift
                  /\ snowflakes'[i].windSpeed = snowflakes[i].windSpeed
            /\ screenWidth' = screenWidth /\ screenHeight' = screenHeight]_vars

\* An Update has recycled one particle and wrapped another.
C4_Witness ==
    /\ frames > 1
    /\ recycled # {}
    /\ \E i \in Flakes : i \notin recycled /\ adv[i].x < 0

\* C5: a particle whose advanced y exceeds screenHeight ends the frame with
\* y = 0 and x in [0, screenWidth); one whose advanced y is at most
\* screenHeight keeps the advanced y, and its x is the advanced x or the edge
\* the wrap sent it to.
C5_VerticalRecycle ==
    frames > 0 => \A i \in Flakes :
        /\ adv[i].y > Height =>
              /\ snowflakes[i].y = 0
              /\ 0 <= snowflakes[i].x /\ snowflakes[i].x < Width
        /\ adv[i].y <= Height =>
              /\ snowflakes[i].y = adv[i].y
              /\ snowflakes[i].x =
                    IF adv[i].x < 0 THEN Width
                    ELSE IF adv[i].x > Width THEN 0 ELSE adv[i].x

\* One particle was recycled while another landed exactly on screenHeight
\* and was kept.
C5_Witness ==
    /\ frames > 0
    /\ \E i \in Flakes : adv[i].y > Height /\ snowflakes[i].x > 0
    /\ \E j \in Flakes : adv[j].y = Height /\ snowflakes[j].y = Height

\* C6 as stated: an x driven below 0 ends the frame at screenWidth and an x
\* driven above screenWidth ends it at 0, recycled or not; an x in
\* [0, screenWidth] is left as it is by the wrap.
C6_WrapAlways ==
    frames > 0 => \A i \in Flakes :
        /\ adv[i].x < 0 => snowflakes[i].x = Width
        /\ adv[i].x > Width => snowflakes[i].x = 0
        /\ (adv[i].x >= 0 /\ adv[i].x <= Width /\ i \notin recycled) =>
              snowflakes[i].x = adv[i].x

\* C6 as amended: for a particle that is not recycled in the frame, an x
\* driven below 0 ends at screenWidth, an x driven above screenWidth ends at 0
\* and an x in [0, screenWidth] is unchanged; for a recycled particle the wrap
\* acts on the re-drawn x, which lies in [0, screenWidth) and is left as drawn.
C6_WrapUnlessRecycled ==
    frames > 0 => \A i \in Flakes :
        /\ i \notin recycled =>
              /\ adv[i].x < 0 => snowflakes[i].x = Width
              /\ adv[i].x > Width => snowflakes[i].x = 0
              /\ (adv[i].x >= 0 /\ adv[i].x <= Width) => snowflakes[i].x = adv[i].x
        /\ i \in recycled =>
              /\ 0 <= snowflakes[i].x /\ snowflakes[i].x < Width
              /\ snowflakes[i].y = 0

\* In one frame the wind drove two particles below 0: the one that was not
\* recycled sits on screenWidth, the recycled one sits where it was re-drawn.
C6_Witness ==
    /\ frames > 0
    /\ \E i \in Flakes :
          i \notin recycled /\ adv[i].x < 0 /\ snowflakes[i].x = Width
    /\ \E j \in Flakes :
          j \in recycled /\ adv[j].x < 0 /\ snowflakes[j].x < Width

\* C10 as stated: a re-roll leaves the countdown in [60, 180).
C10_CountdownHalfOpen ==
    (frames > 0 /\ sinceRetarget = 0) =>
        FInt(60) <= windChangeTime /\ windChangeTime < FInt(180)

\* C10 as amended: the target changes only in an Update whose decremented
\* countdown is <= 0; that Update leaves the countdown in [60, 180], 180
\* included; the first Update re-rolls; two consecutive re-rolls are at least
\* 60 and at most 180 Updates apart and the target is constant in between.
C10_Cadence ==
    /\ []((frames > 0 /\ sinceRetarget = 0) =>
            FInt(60) <= windChangeTime /\ windChangeTime <= FInt(180))
    /\ [](frames = 1 => retargets = 1 /\ sinceRetarget = 0)
    /\ [](sinceRetarget < 180)
    /\ [][/\ windTarget' # windTarget => FSub(windChangeTime, FInt(1)) <= 0
          /\ FSub(windChangeTime, FInt(1)) > 0 =>
                windTarget' = windTarget /\ retargets' = retargets
          /\ (retargets' > retargets /\ retargets > 0) =>
                60 <= sinceRetarget + 1 /\ sinceRetarget + 1 <= 180]_vars

\* The second re-roll comes in the 181st Update, 180 Updates after the first,
\* and resets the countdown to 180 again.
C10_Witness ==
    /\ frames = 181
    /\ retargets = 2
    /\ sinceRetarget = 0
    /\ windChangeTime = FInt(180)


IsFind(c) == c.api = "FindWindowW"
IsBottomCall(c) == c.api = "SetWindowPos" /\ c.after = HWND_BOTTOM
IsRestoreCall(c) == c.api = "SetWindowPos" /\ c.after = 0
CallIndexes == 1 .. Len(calls)
LastCall == calls[Len(calls)]

\* The tick in progress, or the last one, found no window and logged it.
TickMissed == calls # << >> /\ LastCall.api = "log.Println"
\* The tick in progress, or the last one, has put the window at the bottom.
TickPlaced == \E n \in CallIndexes : IsBottomCall(calls[n])
\* FindWindowW finds the render window.
WindowExists == titleHwnd # 0 \/ classHwnd # 0

\* C7: a tick whose lookups by title and by class both fail logs, makes no
\* GetForegroundWindow and no SetWindowPos call and returns to the ticker; the
\* class lookup is made only after the title lookup returned no handle; the
\* loop has no terminal state, so a missed tick is followed by a new lookup,
\* and once the window exists a later tick puts it at the bottom.
C7_RetryUntilFound ==
    /\ [](TickMissed =>
            /\ daemonPc = "ticker"
            /\ Len(calls) = 3
            /\ IsFind(calls[1]) /\ calls[1].hwnd = 0
            /\ IsFind(calls[2]) /\ calls[2].hwnd = 0)
    /\ [](\A n \in CallIndexes :
            (IsFind(calls[n]) /\ n > 1) =>
                n = 2 /\ IsFind(calls[1]) /\ calls[1].hwnd = 0)
    /\ []((Len(calls) >= 2 /\ IsFind(calls[2]) /\ calls[2].hwnd = 0) =>
            daemonPc = "notFound" \/ TickMissed)
    /\ [](ENABLED DaemonStep)
    /\ (TickMissed ~> daemonPc = "findTitle")
    /\ (WindowExists ~>
            (TickPlaced /\ hwnd # 0 /\ hwnd \in {titleHwnd, classHwnd}
                /\ zorder[Len(zorder)] = hwnd))

\* After at least one tick that found no window, a tick has found the window
\* that was on top of the Z order and has put it at the bottom.
C7_Witness ==
    /\ misses > 0
    /\ TickPlaced
    /\ hwnd = zorder[Len(zorder)]
    /\ hwnd = 1

\* C8 as stated: every SetWindowPos call of the daemon carries the no-move,
\* no-size and no-activate flags, so no tick activates a window.
C8_NeverActivates ==
    /\ \A n \in CallIndexes : calls[n].api = "SetWindowPos" =>
          /\ HasFlag(calls[n].flags, SWP_NOMOVE)
          /\ HasFlag(calls[n].flags, SWP_NOSIZE)
          /\ HasFlag(calls[n].flags, SWP_NOACTIVATE)
    /\ activated = {}

\* C8 as amended: every SetWindowPos call carries no-move, no-size and show;
\* the call that puts the render window at the bottom also carries
\* no-activate, the restore call does not; so no tick moves or resizes a
\* window or activates the render window, but a restore activates the window
\* that had the focus.
C8_NoMoveNoSize ==
    /\ \A n \in CallIndexes : calls[n].api = "SetWindowPos" =>
          /\ HasFlag(calls[n].flags, SWP_NOMOVE)
          /\ HasFlag(calls[n].flags, SWP_NOSIZE)
          /\ HasFlag(calls[n].flags, SWP_SHOWWINDOW)
          /\ IsBottomCall(calls[n]) <=> HasFlag(calls[n].flags, SWP_NOACTIVATE)
    /\ titleHwnd \notin activated
    /\ classHwnd \notin activated

\* A tick has made both calls, and the restore has activated a window.
C8_Witness ==
    /\ Len(calls) >= 2
    /\ IsRestoreCall(LastCall)
    /\ IsBottomCall(calls[Len(calls) - 1])
    /\ LastCall.hwnd \in activated

\* The tick has returned after putting the window at the bottom.
TickDone == daemonPc = "ticker" /\ TickPlaced

\* C9 as stated: in a tick that finds the window, the restore call is made
\* whenever the captured handle differs from the window's handle and never
\* when they are equal.
C9_RestoreWheneverDifferent ==
    TickDone => (fgHwnd # hwnd <=> IsRestoreCall(LastCall))

\* C9 as amended: the focused window is captured, then the render window is
\* put at the bottom, then the restore call is made, and it is made exactly
\* when the captured handle is not NULL and differs from the render window's
\* handle; its target is the captured handle, never the render window.
C9_CaptureBottomRestore ==
    /\ \A n \in CallIndexes :
          /\ IsBottomCall(calls[n]) =>
                /\ n > 1
                /\ calls[n - 1].api = "GetForegroundWindow"
                /\ calls[n - 1].hwnd = fgHwnd
                /\ calls[n].hwnd = hwnd
          /\ IsRestoreCall(calls[n]) =>
                /\ n > 1 /\ n = Len(calls)
                /\ IsBottomCall(calls[n - 1])
                /\ calls[n].hwnd = fgHwnd
                /\ calls[n].hwnd # hwnd
          /\ calls[n].api = "GetForegroundWindow" =>
                n > 1 /\ IsFind(calls[n - 1]) /\ calls[n - 1].hwnd = hwnd /\ hwnd # 0
    /\ TickDone => ((fgHwnd # 0 /\ fgHwnd # hwnd) <=> IsRestoreCall(LastCall))

\* A tick that captured no foreground window has put the window at the
\* bottom and returned without a restore call.
C9_Witness ==
    /\ TickDone
    /\ fgHwnd = 0
    /\ IsBottomCall(LastCall)

=============================================================================
